---- MODULE Spec2Model ----
(***************************************************************************)
(* Model of the region-aware caption model of im2txt/show_and_tell_model.py *)
(* (ShowAndTellModel) and of its inference drivers.                         *)
(*                                                                          *)
(* Numbers.  Real-valued tensors are held in fixed point:                   *)
(*   - a coordinate is an integer count of 1/(2000*Grid), so 1.0 is One;    *)
(*   - localisation offsets and variances are plain integers;               *)
(*   - tf.exp is the table ExpMilli, in thousandths;                        *)
(*   - a class confidence is an integer count of tenths.                    *)
(* With these units every product and every 0.5* of the box decoder is an   *)
(* exact integer.  Sequences are 1-based where the code is 0-based.         *)
(***************************************************************************)
EXTENDS Integers, Sequences, FiniteSets, TLC

VARIABLES
    ssd_output,      \* ssd_output[i][p]: the raw detector vector of prior p of image i
    decode_bbox,     \* decode_bbox[i][p]: <<xmin, ymin, xmax, ymax>>, clipped
    mbox_conf_max,   \* mbox_conf_max[i][p]
    idx,             \* idx[i]: the result of non_max_suppression for image i
    good_box,        \* good_box[i]: the selected box of image i
    region_images,   \* region_images[i]: the crop taken of image i
    box_pc,          \* position in build_image_ssd_embeddings
    mode,            \* "train", "eval" or "inference"
    seed,            \* which values the learned parameters hold
    pc,              \* the step of build() to run next; "built" after the last
    self,            \* the attributes of the ShowAndTellModel object
    graph,           \* named tensors and locals of build_model
    variables,       \* the graph's variables, by name (a sequence of scope parts)
    embed_calls,     \* per call of image_inception_embeddings: scope, created, read
    hyps,            \* the driver's caption hypotheses (inference)
    main             \* a run of run_inference.main or create_results.main

boxvars == <<ssd_output, decode_bbox, mbox_conf_max, idx, good_box, region_images, box_pc>>

buildvars == <<mode, seed, pc, self, graph, variables, embed_calls>>

vars == <<boxvars, buildvars, hyps, main>>

\* Python's None: the empty tuple, which no tensor, state or record of the model
\* equals (every tensor has at least one row)
None == << >>

----------------------------------------------------------------------------
(* Bounds of the model *)

Grid == 2          \* prior corners lie on the grid 0/Grid .. Grid/Grid
NumClasses == 2    \* C, the number of confidence channels
NumPriors == 2     \* P, the number of priors per image
BatchSize == 2     \* images per batch
MaxLen == 2        \* longest input sequence of a caption
VocabSize == 4     \* V: token ids 0..V-1; 0 pads, 1 starts and 2 ends a caption
EmbeddingSize == 2 \* E
NumLstmUnits == 2  \* H
Modulus == 5       \* tensor values are integers modulo Modulus

One == 2000 * Grid

Max(a, b) == IF a >= b THEN a ELSE b
Min(a, b) == IF a <= b THEN a ELSE b

RECURSIVE SeqMax(_)
SeqMax(s) == IF Len(s) = 1 THEN s[1] ELSE Max(s[1], SeqMax(Tail(s)))

----------------------------------------------------------------------------
(* The box decoder: "ssd_out_processing" *)

\* tf.exp on the integers the offsets*variances can take, in thousandths
ExpMilli(n) ==
    CASE n = -4 -> 18    [] n = -3 -> 50    [] n = -2 -> 135  [] n = -1 -> 368
      [] n = 0  -> 1000  [] n = 1  -> 2718  [] n = 2  -> 7389
      [] n = 3  -> 20086 [] n = 4  -> 54598

\* v[a:b] of Python for a raw vector v, with negative positions counted from the end
mbox_loc(v) == SubSeq(v, 1, 4)
variances(v) == SubSeq(v, Len(v) - 3, Len(v))
mbox_priorbox(v) == SubSeq(v, Len(v) - 7, Len(v) - 4)
\* the confidences of a vector that holds no prior box before its variances
mbox_conf_to_variances(v) == SubSeq(v, 5, Len(v) - 4)

mbox_conf(v) == SubSeq(v, 5, Len(v) - 8)

prior_width(v) == mbox_priorbox(v)[3] - mbox_priorbox(v)[1]
prior_height(v) == mbox_priorbox(v)[4] - mbox_priorbox(v)[2]
prior_center_x(v) == (mbox_priorbox(v)[3] + mbox_priorbox(v)[1]) \div 2
prior_center_y(v) == (mbox_priorbox(v)[4] + mbox_priorbox(v)[2]) \div 2

decode_bbox_center_x(v) ==
    mbox_loc(v)[1] * prior_width(v) * variances(v)[1] + prior_center_x(v)

decode_bbox_center_y_height(v) ==
    mbox_loc(v)[2] * prior_height(v) * variances(v)[2] + prior_center_y(v)

decode_bbox_center_y(v) ==
    mbox_loc(v)[2] * prior_width(v) * variances(v)[2] + prior_center_y(v)

decode_bbox_width(v) ==
    (ExpMilli(mbox_loc(v)[3] * variances(v)[3]) * prior_width(v)) \div 1000

decode_bbox_height(v) ==
    (ExpMilli(mbox_loc(v)[4] * variances(v)[4]) * prior_height(v)) \div 1000

decode_bbox_xmin(v) == decode_bbox_center_x(v) - decode_bbox_width(v) \div 2
decode_bbox_ymin(v) == decode_bbox_center_y(v) - decode_bbox_height(v) \div 2
decode_bbox_xmax(v) == decode_bbox_center_x(v) + decode_bbox_width(v) \div 2
decode_bbox_ymax(v) == decode_bbox_center_y(v) + decode_bbox_height(v) \div 2

\* tf.minimum(tf.maximum(x, 0.0), 1.0)
ClipNone(x) == x

Clip(x) == Min(Max(x, 0), One)

DecodeBBox(v) ==
    << Clip(decode_bbox_xmin(v)), Clip(decode_bbox_ymin(v)),
       Clip(decode_bbox_xmax(v)), Clip(decode_bbox_ymax(v)) >>

\* tf.reduce_max(mbox_conf, 2)
ConfMax(v) == SeqMax(mbox_conf(v))

----------------------------------------------------------------------------
(* tf.image.non_max_suppression(boxes, scores, max_output_size), with its   *)
(* default iou_threshold of 0.5.  The kernel reads a box as two opposite    *)
(* corners (y1, x1, y2, x2) in any order.                                   *)

BoxArea(b) ==
    (Max(b[1], b[3]) - Min(b[1], b[3])) * (Max(b[2], b[4]) - Min(b[2], b[4]))

Intersection(a, b) ==
    Max(0, Min(Max(a[1], a[3]), Max(b[1], b[3])) - Max(Min(a[1], a[3]), Min(b[1], b[3])))
  * Max(0, Min(Max(a[2], a[4]), Max(b[2], b[4])) - Max(Min(a[2], a[4]), Min(b[2], b[4])))

\* IoU(a, b) > 1/2
IoUOverThreshold(a, b) ==
    /\ BoxArea(a) > 0
    /\ BoxArea(b) > 0
    /\ 2 * Intersection(a, b) > BoxArea(a) + BoxArea(b) - Intersection(a, b)

ScoreOrdersAscending(scores) ==
    { o \in [1..Len(scores) -> 1..Len(scores)] :
        /\ \A a, b \in 1..Len(scores) : a # b => o[a] # o[b]
        /\ \A a, b \in 1..Len(scores) : a < b => scores[o[a]] <= scores[o[b]] }

\* The candidate orders the kernel's sort by descending score may produce:
\* equal scores may come out in either order.
ScoreOrders(scores) ==
    { o \in [1..Len(scores) -> 1..Len(scores)] :
        /\ \A a, b \in 1..Len(scores) : a # b => o[a] # o[b]
        /\ \A a, b \in 1..Len(scores) : a < b => scores[o[a]] >= scores[o[b]] }

\* Candidates the kernel considers at all: the call passes no score threshold.
ScoreAbove0(scores, p) == scores[p] > 0

Candidate(scores, p) == TRUE

RECURSIVE Greedy(_, _, _, _, _, _)
Greedy(boxes, scores, order, k, selected, max_output_size) ==
    IF k > Len(scores) \/ Len(selected) >= max_output_size THEN selected
    ELSE IF /\ Candidate(scores, order[k])
            /\ \A s \in 1..Len(selected) :
                   ~IoUOverThreshold(boxes[order[k]], boxes[selected[s]])
         THEN Greedy(boxes, scores, order, k + 1, Append(selected, order[k]),
                     max_output_size)
         ELSE Greedy(boxes, scores, order, k + 1, selected, max_output_size)

\* The index vectors non_max_suppression may return.
NonMaxSuppression(boxes, scores, max_output_size) ==
    { Greedy(boxes, scores, o, 1, << >>, max_output_size) : o \in ScoreOrders(scores) }

----------------------------------------------------------------------------
(* tf.image.crop_and_resize(image, boxes, box_ind, crop_size): box k is read *)
(* as (y1, x1, y2, x2) and cut out of image box_ind[k].                     *)

CropAndResize(boxes, box_ind) ==
    [ k \in 1..Len(boxes) |->
        [ image |-> box_ind[k],
          y1 |-> boxes[k][1], x1 |-> boxes[k][2],
          y2 |-> boxes[k][3], x2 |-> boxes[k][4] ] ]

----------------------------------------------------------------------------
(* Detector outputs *)

Offsets == {-1, 0, 1}
Variances == {1, 2}

\* well-formed priors, as the detector's PriorBox layers emit them: corners on
\* the grid inside the image, xmin < xmax and ymin < ymax
PriorBoxes ==
    { << 2000 * x0, 2000 * y0, 2000 * x1, 2000 * y1 >> :
        x0 \in 0..Grid, y0 \in 0..Grid, x1 \in 0..Grid, y1 \in 0..Grid }

WellFormed(b) == b[1] < b[3] /\ b[2] < b[4]

\* a confidence vector: a in the first channel, b in every other one
ConfVec(a, b) == [ k \in 1..NumClasses |-> IF k = 1 THEN a ELSE b ]

\* the raw vector of one prior: offsets, class confidences, prior box, variances
Raw(loc, conf, prior, var) == loc \o conf \o prior \o var

FullBox == << 0, 0, One, One >>
CellBox == << 0, 0, 2000, 2000 >>
UnitVar == << 1, 1, 1, 1 >>

\* every offset, prior and variance of the bounded sets, for one prior
DecoderInputs ==
    { Raw(<<dx, dy, dw, dh>>, ConfVec(9, 1), b, <<vx, vy, vw, vh>>) :
        dx \in Offsets, dy \in Offsets, dw \in Offsets, dh \in Offsets,
        b \in { c \in PriorBoxes : WellFormed(c) },
        vx \in Variances, vy \in Variances, vw \in Variances, vh \in Variances }

\* detector outputs that differ in confidence pattern and in box
SelectorInputs ==
    { Raw(<<0, 0, 0, 0>>, ConfVec(0, 0), FullBox, UnitVar),
      Raw(<<0, 0, 0, 0>>, ConfVec(9, 1), CellBox, UnitVar),
      Raw(<<0, 0, -1, -1>>, ConfVec(0, 1), FullBox, UnitVar),
      Raw(<<1, 0, 0, 0>>, ConfVec(1, 1), CellBox, UnitVar) }

----------------------------------------------------------------------------
(* build_image_ssd_embeddings, from the detector's output to the crops *)

Range(n) == [ i \in 1..n |-> i ]

SsdOutProcessing ==
    /\ box_pc = "ssd_out_processing"
    /\ decode_bbox' = [ i \in 1..Len(ssd_output) |->
                          [ p \in 1..Len(ssd_output[i]) |-> DecodeBBox(ssd_output[i][p]) ] ]
    /\ mbox_conf_max' = [ i \in 1..Len(ssd_output) |->
                            [ p \in 1..Len(ssd_output[i]) |-> ConfMax(ssd_output[i][p]) ] ]
    /\ box_pc' = "suppression"
    /\ UNCHANGED <<ssd_output, idx, good_box, region_images, buildvars, hyps, main>>

\* the loop over tf.unstack(decode_bbox) calling non_max_suppression(.., .., 1)
SuppressionResults(boxes, scores) ==
    { r \in [ 1..Len(boxes) ->
                UNION { NonMaxSuppression(boxes[i], scores[i], 1) : i \in 1..Len(boxes) } ] :
        \A i \in 1..Len(boxes) : r[i] \in NonMaxSuppression(boxes[i], scores[i], 1) }

Suppression ==
    /\ box_pc = "suppression"
    /\ \E r \in SuppressionResults(decode_bbox, mbox_conf_max) : idx' = r
    /\ box_pc' = "selection"
    /\ UNCHANGED <<ssd_output, decode_bbox, mbox_conf_max, good_box, region_images, buildvars, hyps, main>>

\* the loop over tf.unstack(idx) reading decode_bbox[i, idx_item[0], :]
GoodBox(boxes, ix) == [ i \in 1..Len(ix) |-> boxes[i][ix[i][1]] ]

Selection ==
    /\ box_pc = "selection"
    /\ IF \E i \in 1..Len(idx) : Len(idx[i]) = 0
       THEN /\ box_pc' = "error"      \* idx_item[0] of an empty index vector
            /\ UNCHANGED good_box
       ELSE /\ good_box' = GoodBox(decode_bbox, idx)
            /\ box_pc' = "region_image_generating"
    /\ UNCHANGED <<ssd_output, decode_bbox, mbox_conf_max, idx, region_images, buildvars, hyps, main>>

RegionImageGenerating ==
    /\ box_pc = "region_image_generating"
    /\ region_images' = CropAndResize(good_box, Range(Len(ssd_output)))
    /\ box_pc' = "cropped"
    /\ UNCHANGED <<ssd_output, decode_bbox, mbox_conf_max, idx, good_box, buildvars, hyps, main>>

NextBox == SsdOutProcessing \/ Suppression \/ Selection \/ RegionImageGenerating

InitBoxState ==
    /\ decode_bbox = None
    /\ mbox_conf_max = None
    /\ idx = None
    /\ good_box = None
    /\ region_images = None
    /\ box_pc = "ssd_out_processing"
    /\ mode = "inference"
    /\ seed = 0
    /\ pc = "not_built"
    /\ self = None
    /\ graph = None
    /\ variables = {}
    /\ embed_calls = << >>
    /\ hyps = None
    /\ main = None

\* a batch of images, each with NumPriors priors
InitBox ==
    /\ ssd_output \in [ 1..BatchSize -> [ 1..NumPriors -> SelectorInputs ] ]
    /\ InitBoxState

\* one image with one prior, over the whole bounded input set of the decoder
InitDecode ==
    /\ ssd_output \in { << << v >> >> : v \in DecoderInputs }
    /\ InitBoxState

SpecBox == InitBox /\ [][NextBox]_vars

SpecDecode == InitDecode /\ [][NextBox]_vars


----------------------------------------------------------------------------
(* Tensors.  A tensor is a sequence (of sequences ...) of integers modulo    *)
(* Modulus; its shape is read off the nesting.                              *)

\* a sequence given by a rule, held as the tuple of its elements
Tensor(f) == f \o << >>

RECURSIVE Sum(_)
Sum(s) == IF Len(s) = 0 THEN 0 ELSE s[1] + Sum(Tail(s))

\* tf.expand_dims(t, 1) of a [batch, k] tensor
ExpandDims1(t) == Tensor([ b \in 1..Len(t) |-> << t[b] >> ])

\* tf.expand_dims(t, 0) and tf.expand_dims(t, 1) of a vector
ExpandDims0(v) == << v >>
ExpandDimsLast(v) == Tensor([ i \in 1..Len(v) |-> << v[i] >> ])

\* tf.tile(t, multiples) of a [d1, d2, d3] tensor
Tile(t, multiples) ==
    Tensor([ b \in 1..(Len(t) * multiples[1]) |->
        Tensor([ s \in 1..(Len(t[1]) * multiples[2]) |->
            Tensor([ k \in 1..(Len(t[1][1]) * multiples[3]) |->
                t[((b - 1) % Len(t)) + 1]
                 [((s - 1) % Len(t[1])) + 1]
                 [((k - 1) % Len(t[1][1])) + 1] ]) ]) ])

\* tf.concat([a, b], 1) of two [batch, k] tensors
Concat1(a, b) == Tensor([ i \in 1..Len(a) |-> a[i] \o b[i] ])

\* tf.concat([a, b], 2) of two [batch, time, k] tensors
Concat2(a, b) ==
    Tensor([ i \in 1..Len(a) |-> Tensor([ t \in 1..Len(a[i]) |-> a[i][t] \o b[i][t] ]) ])

\* the operands of a concat agree in every dimension but the joined one
SameDims1(a, b) == Len(a) = Len(b)
SameDims2(a, b) == Len(a) = Len(b) /\ \A i \in 1..Len(a) : Len(a[i]) = Len(b[i])

\* tf.squeeze(t, axis=[1]) of a [batch, 1, k] tensor
Squeeze1(t) == Tensor([ b \in 1..Len(t) |-> t[b][1] ])

\* tf.reshape(t, [-1, k]) of a [batch, time, k] tensor: rows stacked batch-major
RECURSIVE Flatten(_)
Flatten(t) == IF Len(t) = 0 THEN << >> ELSE t[1] \o Flatten(Tail(t))

----------------------------------------------------------------------------
(* Variables and variable scopes of the graph *)

RootScope == [ name |-> << >>, reuse |-> FALSE ]

\* with tf.variable_scope(part): a new scope object below the current one,
\* which inherits the current scope's reuse flag
VariableScope(current, part) ==
    [ name |-> Append(current.name, part), reuse |-> current.reuse ]

\* scope.reuse_variables(): sets the flag of that scope object
ReuseVariables(scope) == [ scope EXCEPT !.reuse = TRUE ]

\* tf.get_variable(vname) in a scope: creates the variable, or returns the
\* existing one when the scope reuses; otherwise raises ValueError
GetVariable(store, scope, vname) ==
    LET name == Append(scope.name, vname)
    IN  [ name |-> name,
          ok |-> (name \in store) = scope.reuse,
          created |-> IF name \in store THEN {} ELSE {name},
          store |-> store \cup {name} ]

\* the value a variable holds at [r, c], in the parameter assignment `seed`
Param(name, r, c) ==
    (seed + 2 * Len(name) + (IF name[1] = "lstm" THEN 1 ELSE 0)
       + r * (c + 1) + c) % Modulus

\* x . W for the matrix variable W and a vector x
MatVec(x, W, num_outputs) ==
    Tensor([ c \in 1..num_outputs |->
        Sum(Tensor([ r \in 1..Len(x) |-> x[r] * Param(W, r, c) ])) % Modulus ])

----------------------------------------------------------------------------
(* The visual feature extractor and image_inception_embeddings *)

ImageContents == {1, 2}

\* what a picture shows: the image's content seen through a window
Feature(content, window) ==
    (content + (window[1] + 2 * window[2] + 3 * window[3] + 4 * window[4]) \div 1000)
        % Modulus

InceptionName == << "InceptionV3", "weights" >>

\* image_embedding.inception_v3: one extractor whose variables are made by the
\* first call and used again by every later one
InceptionV3(features, store) ==
    [ output |-> Tensor([ b \in 1..Len(features) |->
                     << (features[b] * (1 + Param(InceptionName, 1, 1)) + 1) % Modulus >> ]),
      created |-> {InceptionName} \ store,
      read |-> {InceptionName},
      store |-> store \cup {InceptionName} ]

\* tf.get_collection(GLOBAL_VARIABLES, scope="InceptionV3")
InceptionVariables(store) == { n \in store : n[1] = "InceptionV3" }

\* the scope the projection layer of a call is built in
EmbeddingScope(current) == VariableScope(current, "image_embedding")

\* image_inception_embeddings(images), called with `current` the open scope
ImageInceptionEmbeddings(features, current, store) ==
    LET inception == InceptionV3(features, store)
        scope == EmbeddingScope(current)
        weights == GetVariable(inception.store, scope, "weights")
    IN  [ image_embeddings |->
              Tensor([ b \in 1..Len(features) |->
                  MatVec(inception.output[b], weights.name, EmbeddingSize) ]),
          ok |-> weights.ok,
          store |-> weights.store,
          inception_variables |-> InceptionVariables(inception.store),
          call |-> [ scope |-> ReuseVariables(scope),
                     created |-> inception.created \cup weights.created,
                     read |-> inception.read \cup {weights.name} ] ]

----------------------------------------------------------------------------
(* Inputs *)

Modes == {"train", "eval", "inference"}
Seeds == {0, 1}
StartWord == 1
EndWord == 2
Words == 3..(VocabSize - 1)
HypIds == {"a", "b"}

RECURSIVE SeqsUpTo(_, _)
SeqsUpTo(S, n) ==
    IF n = 0 THEN { << >> }
    ELSE SeqsUpTo(S, n - 1)
           \cup { Append(s, x) : s \in { q \in SeqsUpTo(S, n - 1) : Len(q) = n - 1 }, x \in S }

\* a caption: the start word, at most MaxLen - 1 words, the end word
Captions == { << StartWord >> \o w \o << EndWord >> : w \in SeqsUpTo(Words, MaxLen - 1) }

Pad(s, n) == Tensor([ t \in 1..n |-> IF t <= Len(s) THEN s[t] ELSE 0 ])

Ones(n) == Tensor([ t \in 1..n |-> 1 ])

\* batch_with_dynamic_pad: input is the caption without its last word, target
\* the caption without its first, the mask marks the caption's own positions;
\* all are padded to the longest input of the batch
BatchOf(caps) ==
    LET T == SeqMax([ b \in 1..Len(caps) |-> Len(caps[b]) - 1 ])
    IN  [ images |-> Tensor([ b \in 1..Len(caps) |-> 1 + ((Len(caps[b]) + b) % 2) ]),
          input_seqs |-> Tensor([ b \in 1..Len(caps) |->
                             Pad(SubSeq(caps[b], 1, Len(caps[b]) - 1), T) ]),
          target_seqs |-> Tensor([ b \in 1..Len(caps) |->
                              Pad(SubSeq(caps[b], 2, Len(caps[b])), T) ]),
          input_mask |-> Tensor([ b \in 1..Len(caps) |-> Pad(Ones(Len(caps[b]) - 1), T) ]) ]

Batches == { BatchOf(caps) : caps \in [ 1..BatchSize -> Captions ] }

\* the feed a graph built for inference is evaluated on: one image and the
\* start word of each hypothesis of the beam
Feeds ==
    { [ image_feed |-> c, input_feed |-> [ i \in 1..n |-> StartWord ] ] :
        c \in ImageContents, n \in 1..Cardinality(HypIds) }

Det0 == Raw(<<0, 0, 0, 0>>, ConfVec(0, 0), FullBox, UnitVar)
Det9 == Raw(<<0, 0, 0, 0>>, ConfVec(9, 1), CellBox, UnitVar)
Det1 == Raw(<<0, 0, -1, -1>>, ConfVec(0, 1), FullBox, UnitVar)
DetEq == Raw(<<1, 0, 0, 0>>, ConfVec(1, 1), CellBox, UnitVar)

\* the detector's output for an image: a function of the image alone
SSD300(content) ==
    [ p \in 1..NumPriors |->
        IF content = 1 THEN (IF p = 1 THEN Det9 ELSE Det1)
                       ELSE (IF p = 1 THEN DetEq ELSE Det0) ]

----------------------------------------------------------------------------
(* __init__ and the steps of build() *)

InitSelf ==
    [ images |-> None, images_300x300 |-> None, input_seqs |-> None,
      target_seqs |-> None, input_mask |-> None, image_embeddings |-> None,
      seq_embeddings |-> None, region_aspect_embeddings |-> None,
      image_embeddings_with_aspect |-> None, seq_embeddings_with_aspect |-> None,
      total_loss |-> None, target_cross_entropy_losses |-> None,
      target_cross_entropy_loss_weights |-> None, inception_variables |-> {},
      init_fn |-> None, global_step |-> None ]

InitGraph ==
    [ tile_expand_region_aspect_embeddings |-> None, seed_state |-> None,
      initial_state |-> None, lstm_outputs |-> None, logits |-> None,
      batch_loss |-> None ]

Init ==
    /\ mode \in Modes
    /\ seed \in Seeds
    /\ pc = "build_inputs"
    /\ self = InitSelf
    /\ graph = InitGraph
    /\ variables = {}
    /\ embed_calls = << >>
    /\ hyps = [ h \in {} |-> None ]
    /\ main = None
    /\ ssd_output = None
    /\ decode_bbox = None
    /\ mbox_conf_max = None
    /\ idx = None
    /\ good_box = None
    /\ region_images = None
    /\ box_pc = "not_built"

build_inputs ==
    /\ pc = "build_inputs"
    /\ IF mode = "inference"
       THEN \E feed \in Feeds :
               self' = [ self EXCEPT
                           !.images = ExpandDims0(feed.image_feed),
                           !.input_seqs = ExpandDimsLast(feed.input_feed),
                           !.target_seqs = None,
                           !.input_mask = None ]
       ELSE \E batch \in Batches :
               self' = [ self EXCEPT
                           !.images = batch.images,
                           !.input_seqs = batch.input_seqs,
                           !.target_seqs = batch.target_seqs,
                           !.input_mask = batch.input_mask ]
    /\ pc' = "build_image_embeddings"
    /\ UNCHANGED <<boxvars, mode, seed, graph, variables, embed_calls, hyps, main>>

\* a build step that leaves self.image_embeddings unassigned
build_image_embeddings_skipped ==
    /\ pc = "build_image_embeddings"
    /\ pc' = "build_image_ssd_embeddings"
    /\ UNCHANGED <<boxvars, mode, seed, self, graph, variables, embed_calls, hyps, main>>

build_image_embeddings ==
    /\ pc = "build_image_embeddings"
    /\ LET r == ImageInceptionEmbeddings(
                    [ b \in 1..Len(self.images) |-> Feature(self.images[b], FullBox) ],
                    RootScope, variables)
       IN  /\ self' = [ self EXCEPT !.image_embeddings = r.image_embeddings,
                                    !.inception_variables = r.inception_variables ]
           /\ variables' = r.store
           /\ embed_calls' = Append(embed_calls, r.call)
           /\ pc' = IF r.ok THEN "build_image_ssd_embeddings" ELSE "error"
    /\ UNCHANGED <<boxvars, mode, seed, graph, hyps, main>>

\* the window crop_and_resize cuts, as the extractor sees it
RegionFeature(images, region) ==
    Feature(images[region.image], << region.y1, region.x1, region.y2, region.x2 >>)

build_image_ssd_embeddings ==
    /\ pc = "build_image_ssd_embeddings"
    /\ LET out == [ b \in 1..Len(self.images) |-> SSD300(self.images[b]) ]
           boxes == [ i \in 1..Len(out) |->
                        [ p \in 1..Len(out[i]) |-> DecodeBBox(out[i][p]) ] ]
           conf == [ i \in 1..Len(out) |->
                       [ p \in 1..Len(out[i]) |-> ConfMax(out[i][p]) ] ]
       IN  \E ix \in SuppressionResults(boxes, conf) :
             /\ ssd_output' = out
             /\ decode_bbox' = boxes
             /\ mbox_conf_max' = conf
             /\ idx' = ix
             /\ IF \E i \in 1..Len(ix) : Len(ix[i]) = 0
                THEN /\ pc' = "error"
                     /\ box_pc' = "error"
                     /\ UNCHANGED <<good_box, region_images, self, variables, embed_calls>>
                ELSE LET good == GoodBox(boxes, ix)
                         regions == CropAndResize(good, Range(Len(self.images)))
                         r == ImageInceptionEmbeddings(
                                 [ b \in 1..Len(regions) |->
                                     RegionFeature(self.images, regions[b]) ],
                                 VariableScope(RootScope, "region_image_embedding"),
                                 variables)
                     IN  /\ good_box' = good
                         /\ region_images' = regions
                         /\ box_pc' = "cropped"
                         /\ self' = [ self EXCEPT
                                        !.images_300x300 = self.images,
                                        !.region_aspect_embeddings = r.image_embeddings,
                                        !.inception_variables = r.inception_variables ]
                         /\ variables' = r.store
                         /\ embed_calls' = Append(embed_calls, r.call)
                         /\ pc' = IF r.ok THEN "build_seq_embeddings" ELSE "error"
    /\ UNCHANGED <<mode, seed, graph, hyps, main>>

MapName == << "seq_embedding", "map" >>

\* tf.nn.embedding_lookup(embedding_map, ids) for a [batch, time] tensor of ids
EmbeddingLookup(ids) ==
    Tensor([ b \in 1..Len(ids) |->
        Tensor([ t \in 1..Len(ids[b]) |->
            Tensor([ k \in 1..EmbeddingSize |-> Param(MapName, ids[b][t], k) ]) ]) ])

build_seq_embeddings ==
    /\ pc = "build_seq_embeddings"
    /\ LET map == GetVariable(variables, VariableScope(RootScope, "seq_embedding"), "map")
       IN  /\ variables' = map.store
           /\ self' = [ self EXCEPT !.seq_embeddings = EmbeddingLookup(self.input_seqs) ]
           /\ pc' = IF map.ok THEN "build_model" ELSE "error"
    /\ UNCHANGED <<boxvars, mode, seed, graph, embed_calls, hyps, main>>

----------------------------------------------------------------------------
(* The recurrent cell: tf.contrib.rnn.BasicLSTMCell(num_units, state_is_tuple) *)
(* A state is the pair (c, h), each [batch, NumLstmUnits].                  *)

KernelName == << "lstm", "basic_lstm_cell", "kernel" >>
BiasName == << "lstm", "basic_lstm_cell", "bias" >>

Sigmoid(x) == (x * x + 1) % Modulus
Tanh(x) == (2 * x + 1) % Modulus

Zeros(n) == Tensor([ k \in 1..n |-> 0 ])

\* one row of the cell: gates i, j, f, o are the four quarters of [x, h].W + b
LstmRow(x, c, h) ==
    LET H == NumLstmUnits
        lin == MatVec(x \o h, KernelName, 4 * H)
        gate(g, k) == (lin[(g - 1) * H + k] + Param(BiasName, 1, (g - 1) * H + k)) % Modulus
        new_c == Tensor([ k \in 1..H |->
                     (c[k] * Sigmoid(gate(3, k) + 1) + Sigmoid(gate(1, k)) * Tanh(gate(2, k)))
                        % Modulus ])
        new_h == Tensor([ k \in 1..H |-> (Tanh(new_c[k]) * Sigmoid(gate(4, k))) % Modulus ])
    IN  [ c |-> new_c, h |-> new_h ]

\* a cell that applies the first row's state to every row of the batch
BasicLSTMCellFirstRow(inputs, state) ==
    LET rows == Tensor([ b \in 1..Len(inputs) |-> LstmRow(inputs[b], state.c[1], state.h[1]) ])
    IN  [ output |-> Tensor([ b \in 1..Len(inputs) |-> rows[b].h ]),
          state |-> [ c |-> Tensor([ b \in 1..Len(inputs) |-> rows[b].c ]),
                      h |-> Tensor([ b \in 1..Len(inputs) |-> rows[b].h ]) ] ]

\* lstm_cell(inputs, state): returns (new_h, LSTMStateTuple(new_c, new_h))
BasicLSTMCell(inputs, state) ==
    LET rows == Tensor([ b \in 1..Len(inputs) |-> LstmRow(inputs[b], state.c[b], state.h[b]) ])
    IN  [ output |-> Tensor([ b \in 1..Len(inputs) |-> rows[b].h ]),
          state |-> [ c |-> Tensor([ b \in 1..Len(inputs) |-> rows[b].c ]),
                      h |-> Tensor([ b \in 1..Len(inputs) |-> rows[b].h ]) ] ]

\* tf.nn.dropout with the mask pattern `drop`: 0 keeps every entry, 1 drops
\* the entries at odd positions; kept entries are scaled
Dropout(x, drop, t) ==
    Tensor([ b \in 1..Len(x) |->
        Tensor([ k \in 1..Len(x[b]) |->
            IF drop = 0 \/ (b + t + k) % 2 = 0 THEN (2 * x[b][k]) % Modulus ELSE 0 ]) ])

DropPatterns == {0, 1}

\* the cell build_model uses: in "train" wrapped in a DropoutWrapper on its
\* input and output paths (drop = -1: no wrapper)
LstmCell(inputs, state, drop, t) ==
    IF drop = -1 THEN BasicLSTMCell(inputs, state)
    ELSE LET r == BasicLSTMCell(Dropout(inputs, drop, t), state)
         IN  [ output |-> Dropout(r.output, drop, t + 1), state |-> r.state ]

\* lstm_cell.zero_state(batch_size)
ZeroState(batch_size) ==
    [ c |-> Tensor([ b \in 1..batch_size |-> Zeros(NumLstmUnits) ]),
      h |-> Tensor([ b \in 1..batch_size |-> Zeros(NumLstmUnits) ]) ]

\* tf.reduce_sum(input_mask, 1)
SequenceLength(input_mask) == Tensor([ b \in 1..Len(input_mask) |-> Sum(input_mask[b]) ])

\* a recurrence that runs every example over the whole padded length
IgnoreLength(sequence_length, b, T) == T

\* the valid length dynamic_rnn gives example b
ValidLength(sequence_length, b, T) == sequence_length[b]

\* tf.nn.dynamic_rnn(cell, inputs, sequence_length, initial_state): steps the
\* cell over the time axis; past an example's length the output row is zero
\* and the state is copied through.  Returns the outputs [batch, time, H]
\* from step t on, given the state before step t.
RECURSIVE DynamicRnn(_, _, _, _, _)
DynamicRnn(inputs, sequence_length, state, drop, t) ==
    IF t > Len(inputs[1]) THEN Tensor([ b \in 1..Len(inputs) |-> << >> ])
    ELSE LET T == Len(inputs[1])
             r == LstmCell(Tensor([ b \in 1..Len(inputs) |-> inputs[b][t] ]), state, drop, t)
             live(b) == t <= ValidLength(sequence_length, b, T)
             next == [ c |-> Tensor([ b \in 1..Len(inputs) |->
                                 IF live(b) THEN r.state.c[b] ELSE state.c[b] ]),
                       h |-> Tensor([ b \in 1..Len(inputs) |->
                                 IF live(b) THEN r.state.h[b] ELSE state.h[b] ]) ]
             rest == DynamicRnn(inputs, sequence_length, next, drop, t + 1)
         IN  Tensor([ b \in 1..Len(inputs) |->
                 << IF live(b) THEN r.output[b] ELSE Zeros(NumLstmUnits) >> \o rest[b] ])

\* the final state tf.nn.dynamic_rnn returns next to the outputs (build_model
\* drops it): the state after the last step, copied through past the length
RECURSIVE DynamicRnnState(_, _, _, _, _)
DynamicRnnState(inputs, sequence_length, state, drop, t) ==
    IF t > Len(inputs[1]) THEN state
    ELSE LET T == Len(inputs[1])
             r == LstmCell(Tensor([ b \in 1..Len(inputs) |-> inputs[b][t] ]), state, drop, t)
             live(b) == t <= ValidLength(sequence_length, b, T)
             next == [ c |-> Tensor([ b \in 1..Len(inputs) |->
                                 IF live(b) THEN r.state.c[b] ELSE state.c[b] ]),
                       h |-> Tensor([ b \in 1..Len(inputs) |->
                                 IF live(b) THEN r.state.h[b] ELSE state.h[b] ]) ]
         IN  DynamicRnnState(inputs, sequence_length, next, drop, t + 1)

----------------------------------------------------------------------------
(* build_model: fusion, decoder, projection and loss *)

\* "image_embeddings_with_aspect": global and region embedding side by side
ImageContext(image_embeddings, region_aspect_embeddings) ==
    Concat1(image_embeddings, region_aspect_embeddings)

TileMultiplesSwapped(m, seq_embeddings) ==
    IF m = "inference" THEN << 1, Len(seq_embeddings[1]), 1 >>
    ELSE << Len(seq_embeddings), 1, 1 >>

\* the multiples of tf.tile: over the batch axis in inference, over the time
\* axis otherwise
TileMultiples(m, seq_embeddings) ==
    IF m = "inference" THEN << Len(seq_embeddings), 1, 1 >>
    ELSE << 1, Len(seq_embeddings[1]), 1 >>

\* the tiling fed with the region embedding in place of the global one
TileExpandRegion(m, seq_embeddings, image_embeddings) ==
    Tile(ExpandDims1(self.region_aspect_embeddings), TileMultiples(m, seq_embeddings))

\* "tile_expand_region_aspect_embeddings"
TileExpand(m, seq_embeddings, image_embeddings) ==
    Tile(ExpandDims1(image_embeddings), TileMultiples(m, seq_embeddings))

StateSplitSwapped(state_feed) ==
    [ c |-> Tensor([ b \in 1..Len(state_feed) |->
                SubSeq(state_feed[b], Len(state_feed[b]) \div 2 + 1, Len(state_feed[b])) ]),
      h |-> Tensor([ b \in 1..Len(state_feed) |->
                SubSeq(state_feed[b], 1, Len(state_feed[b]) \div 2) ]) ]

StateConcatSwapped(state) == Concat1(state.h, state.c)

\* tf.concat(axis=1, values=state): the flat [batch, 2H] form of a state
StateConcat(state) == Concat1(state.c, state.h)

\* tf.split(state_feed, 2, axis=1), read by the cell as (c, h)
StateSplit(state_feed) ==
    [ c |-> Tensor([ b \in 1..Len(state_feed) |->
                SubSeq(state_feed[b], 1, Len(state_feed[b]) \div 2) ]),
      h |-> Tensor([ b \in 1..Len(state_feed) |->
                SubSeq(state_feed[b], Len(state_feed[b]) \div 2 + 1, Len(state_feed[b])) ]) ]

LogitsWeights == << "logits", "weights" >>
LogitsBiases == << "logits", "biases" >>

\* the "logits" layer on the rows of lstm_outputs
Logits(lstm_outputs) ==
    Tensor([ n \in 1..Len(lstm_outputs) |->
        LET xw == MatVec(lstm_outputs[n], LogitsWeights, VocabSize)
        IN  Tensor([ k \in 1..VocabSize |->
                (xw[k] + Param(LogitsBiases, 1, k)) % Modulus ]) ])

\* tf.nn.softmax: unchanged by adding a constant to a row
Softmax(logits) ==
    Tensor([ n \in 1..Len(logits) |->
        Tensor([ k \in 1..Len(logits[n]) |-> (logits[n][k] - logits[n][1]) % Modulus ]) ])

\* sparse_softmax_cross_entropy_with_logits: per row, the normaliser of the
\* row less the logit of the label
CrossEntropy(targets, logits) ==
    Tensor([ n \in 1..Len(logits) |-> SeqMax(logits[n]) + 1 - logits[n][targets[n] + 1] ])

BatchLossUnweighted(losses, weights) ==
    [ num |-> Sum(losses), den |-> Sum(weights) ]

\* tf.div(tf.reduce_sum(losses * weights), tf.reduce_sum(weights)), as a fraction
BatchLoss(losses, weights) ==
    [ num |-> Sum(Tensor([ n \in 1..Len(losses) |-> losses[n] * weights[n] ])),
      den |-> Sum(weights) ]

\* the variables build_model asks for, in order: the cell's at the seeding
\* call, under lstm_scope before reuse_variables(); the cell's again at the
\* decoding call, under lstm_scope after it; the projection's
ModelVariables(store) ==
    LET lstm_scope == VariableScope(RootScope, "lstm")
        cell_scope == VariableScope(lstm_scope, "basic_lstm_cell")
        k1 == GetVariable(store, cell_scope, "kernel")
        b1 == GetVariable(k1.store, cell_scope, "bias")
        reused == VariableScope(ReuseVariables(lstm_scope), "basic_lstm_cell")
        k2 == GetVariable(b1.store, reused, "kernel")
        b2 == GetVariable(k2.store, reused, "bias")
        logits_scope == VariableScope(RootScope, "logits")
        w == GetVariable(b2.store, logits_scope, "weights")
        b == GetVariable(w.store, logits_scope, "biases")
    IN  [ ok |-> k1.ok /\ b1.ok /\ k2.ok /\ b2.ok /\ w.ok /\ b.ok, store |-> b.store ]

\* the decoder run once over the padded batch (train and eval)
Unrolled(seq_embeddings_with_aspect, input_mask, initial_state, drop) ==
    Flatten(DynamicRnn(seq_embeddings_with_aspect, SequenceLength(input_mask),
                       initial_state, drop, 1))

\* one decoder step on fed states (inference): "softmax" and "state"
Stepwise(seq_embeddings_with_aspect, state_feed) ==
    LET r == LstmCell(Squeeze1(seq_embeddings_with_aspect), StateSplit(state_feed), -1, 1)
    IN  [ lstm_outputs |-> r.output,
          softmax |-> Softmax(Logits(r.output)),
          state |-> StateConcat(r.state) ]

build_model ==
    /\ pc = "build_model"
    /\ \E drop \in (IF mode = "train" THEN DropPatterns ELSE {-1}) :
        LET context == ImageContext(self.image_embeddings, self.region_aspect_embeddings)
            tile == TileExpand(mode, self.seq_embeddings, self.image_embeddings)
            fits == SameDims2(self.seq_embeddings, tile)
            seqs == IF fits THEN Concat2(self.seq_embeddings, tile) ELSE None
            vs == ModelVariables(variables)
            seeded == LstmCell(context, ZeroState(Len(self.image_embeddings)), drop, 0).state
        IN  IF ~fits \/ ~vs.ok
            THEN /\ pc' = "error"
                 /\ graph' = [ graph EXCEPT !.tile_expand_region_aspect_embeddings = tile ]
                 /\ UNCHANGED <<self, variables>>
            ELSE /\ pc' = "setup_inception_initializer"
                 /\ variables' = vs.store
                 /\ IF mode = "inference"
                    THEN /\ graph' = [ graph EXCEPT
                                 !.tile_expand_region_aspect_embeddings = tile,
                                 !.seed_state = seeded,
                                 !.initial_state = StateConcat(seeded) ]
                         /\ self' = [ self EXCEPT
                                 !.image_embeddings_with_aspect = context,
                                 !.seq_embeddings_with_aspect = seqs ]
                    ELSE LET outputs == Unrolled(seqs, self.input_mask, seeded, drop)
                             logits == Logits(outputs)
                             targets == Flatten(self.target_seqs)
                             weights == Flatten(self.input_mask)
                             losses == CrossEntropy(targets, logits)
                             batch_loss == BatchLoss(losses, weights)
                         IN  /\ graph' = [ graph EXCEPT
                                     !.tile_expand_region_aspect_embeddings = tile,
                                     !.seed_state = seeded,
                                     !.lstm_outputs = outputs,
                                     !.logits = logits,
                                     !.batch_loss = batch_loss ]
                             /\ self' = [ self EXCEPT
                                     !.image_embeddings_with_aspect = context,
                                     !.seq_embeddings_with_aspect = seqs,
                                     !.total_loss = batch_loss,
                                     !.target_cross_entropy_losses = losses,
                                     !.target_cross_entropy_loss_weights = weights ]
    /\ UNCHANGED <<boxvars, mode, seed, embed_calls, hyps, main>>

setup_inception_initializer ==
    /\ pc = "setup_inception_initializer"
    /\ self' = IF mode # "inference"
               THEN [ self EXCEPT !.init_fn = << "restore_fn" >> ]
               ELSE self
    /\ pc' = "setup_global_step"
    /\ UNCHANGED <<boxvars, mode, seed, graph, variables, embed_calls, hyps, main>>

GlobalStepName == << "global_step" >>

setup_global_step ==
    /\ pc = "setup_global_step"
    /\ variables' = variables \cup {GlobalStepName}
    /\ self' = [ self EXCEPT !.global_step = GlobalStepName ]
    /\ pc' = "built"
    /\ UNCHANGED <<boxvars, mode, seed, graph, embed_calls, hyps, main>>

----------------------------------------------------------------------------
(* The stepwise protocol, as a decoding driver runs it on the inference     *)
(* graph: fetch "initial_state" for the image, then call "softmax" and      *)
(* "state" with a batch of (input word, state) rows, one row per hypothesis *)

\* the graph evaluated on a feed of input words and states, for the image of
\* image_embeddings
InferenceStep(image_embeddings, input_feed, state_feed) ==
    LET seq_embeddings == EmbeddingLookup(ExpandDimsLast(input_feed))
        tile == TileExpand("inference", seq_embeddings, image_embeddings)
    IN  Stepwise(Concat2(seq_embeddings, tile), state_feed)

feed_image ==
    /\ pc = "built"
    /\ mode = "inference"
    /\ hyps' = [ h \in HypIds |->
                   [ sentence |-> << >>, softmax |-> << >>, beam |-> << >>,
                     fed |-> None, state |-> graph.initial_state[1] ] ]
    /\ pc' = "decoding"
    /\ UNCHANGED <<boxvars, mode, seed, self, graph, variables, embed_calls, main>>

\* the hypotheses a call may carry, in the order of its rows
Beams ==
    { s \in SeqsUpTo(HypIds, Cardinality(HypIds)) :
        /\ Len(s) >= 1
        /\ \A i, j \in 1..Len(s) : i # j => s[i] # s[j] }

\* the words a driver may feed a hypothesis next
NextWords(h) == IF Len(hyps[h].sentence) = 0 THEN {StartWord} ELSE Words

inference_step ==
    /\ pc = "decoding"
    /\ \E beam \in Beams :
         /\ \A i \in 1..Len(beam) : Len(hyps[beam[i]].sentence) < MaxLen
         /\ \E input_feed \in [ 1..Len(beam) -> 1..(VocabSize - 1) ] :
              /\ \A i \in 1..Len(beam) : input_feed[i] \in NextWords(beam[i])
              /\ LET state_feed == [ i \in 1..Len(beam) |-> hyps[beam[i]].state ]
                     r == InferenceStep(self.image_embeddings, input_feed, state_feed)
                     row(h) == CHOOSE i \in 1..Len(beam) : beam[i] = h
                 IN  hyps' = [ h \in HypIds |->
                                 IF \E i \in 1..Len(beam) : beam[i] = h
                                 THEN [ sentence |-> Append(hyps[h].sentence, input_feed[row(h)]),
                                        softmax |-> Append(hyps[h].softmax, r.softmax[row(h)]),
                                        beam |-> beam,
                                        fed |-> hyps[h].state,
                                        state |-> r.state[row(h)] ]
                                 ELSE hyps[h] ]
    /\ UNCHANGED <<boxvars, buildvars, main>>

NextBuild ==
    \/ build_inputs
    \/ build_image_embeddings
    \/ build_image_ssd_embeddings
    \/ build_seq_embeddings
    \/ build_model
    \/ setup_inception_initializer
    \/ setup_global_step

Next == NextBuild \/ feed_image \/ inference_step

Spec == Init /\ [][Next]_vars

----------------------------------------------------------------------------
(* The two command-line drivers: run_inference.main, create_results.main   *)

MaxFiles == 2

Programs == {"run_inference", "create_results"}

\* a file of the run: it can be read, or tf.gfile.GFile raises on it
Files == {"readable", "missing"}

\* the inputs of a run: the images found (the globbed filenames, or the COCO
\* image objects), the checkpoint, and for create_results FLAGS.eval_num
MainInputs ==
    { [ program |-> p, filenames |-> f, checkpoint |-> c, eval_num |-> e,
        pc |-> "build_graph_from_config", finalized |-> FALSE, i |-> 0, log |-> << >> ] :
        p \in Programs, f \in SeqsUpTo(Files, MaxFiles), c \in Files, e \in 0..MaxFiles }

\* the number of loop iterations: every filename, or min(len(img_objs), eval_num)
Iterations(m) ==
    IF m.program = "run_inference" THEN Len(m.filenames)
    ELSE Min(Len(m.filenames), m.eval_num)

InitMain ==
    /\ main \in { m \in MainInputs : m.program = "create_results" \/ m.eval_num = 0 }
    /\ ssd_output = None
    /\ decode_bbox = None
    /\ mbox_conf_max = None
    /\ idx = None
    /\ good_box = None
    /\ region_images = None
    /\ box_pc = "not_built"
    /\ mode = "inference"
    /\ seed = 0
    /\ pc = "not_built"
    /\ self = None
    /\ graph = None
    /\ variables = {}
    /\ embed_calls = << >>
    /\ hyps = None

\* restore_fn = model.build_graph_from_config(...), inside g.as_default()
build_graph_from_config ==
    /\ main.pc = "build_graph_from_config"
    /\ main' = [ main EXCEPT !.log = Append(@, "build_graph_from_config"),
                             !.pc = "finalize" ]
    /\ UNCHANGED <<boxvars, buildvars, hyps>>

\* g.finalize()
finalize ==
    /\ main.pc = "finalize"
    /\ main' = [ main EXCEPT !.log = Append(@, "finalize"),
                             !.finalized = TRUE,
                             !.pc = "restore_fn" ]
    /\ UNCHANGED <<boxvars, buildvars, hyps>>

\* the driver that never restores: the session goes straight to the loop
restore_fn_skipped ==
    /\ main.pc = "restore_fn"
    /\ main' = [ main EXCEPT !.pc = "beam_search" ]
    /\ UNCHANGED <<boxvars, buildvars, hyps>>

\* with tf.Session(graph=g) as sess: restore_fn(sess)
restore_fn ==
    /\ main.pc = "restore_fn"
    /\ main' = [ main EXCEPT !.log = Append(@, "restore_fn"),
                             !.pc = IF main.checkpoint = "readable"
                                    THEN "beam_search" ELSE "raised" ]
    /\ UNCHANGED <<boxvars, buildvars, hyps>>

\* one iteration of the loop: read the image, generator.beam_search(sess, image)
beam_search ==
    /\ main.pc = "beam_search"
    /\ main.i < Iterations(main)
    /\ main' = IF main.filenames[main.i + 1] = "readable"
               THEN [ main EXCEPT !.log = Append(@, "beam_search"), !.i = @ + 1 ]
               ELSE [ main EXCEPT !.pc = "raised" ]
    /\ UNCHANGED <<boxvars, buildvars, hyps>>

\* the loop is over and the session closes
main_return ==
    /\ main.pc = "beam_search"
    /\ main.i = Iterations(main)
    /\ main' = [ main EXCEPT !.pc = "done" ]
    /\ UNCHANGED <<boxvars, buildvars, hyps>>

NextMain ==
    \/ build_graph_from_config
    \/ finalize
    \/ restore_fn
    \/ beam_search
    \/ main_return

SpecMain == InitMain /\ [][NextMain]_vars

----------------------------------------------------------------------------
(* Properties of the region selector and of the box decoder *)

Images == 1..Len(ssd_output)
Priors(i) == 1..Len(ssd_output[i])

\* C1: region selection yields exactly one selected box and exactly one crop
\* per image, whatever the detector's confidences are (all zero and all equal
\* included), and never ends in an index error on an empty suppression result.
C1_OneRegionPerImage ==
    /\ box_pc # "error"
    /\ box_pc \in {"selection", "region_image_generating", "cropped"} =>
          \A i \in Images : Len(idx[i]) = 1 /\ idx[i][1] \in Priors(i)
    /\ box_pc \in {"region_image_generating", "cropped"} =>
          /\ Len(good_box) = Len(ssd_output)
          /\ \A i \in Images : good_box[i] \in { decode_bbox[i][p] : p \in Priors(i) }
    /\ box_pc = "cropped" =>
          /\ Len(region_images) = Len(ssd_output)
          /\ \A i \in Images : region_images[i].image = i

\* a batch is cropped in which one image has only zero confidences and another
\* has equal non-zero confidences on different boxes
C1_Witness ==
    /\ box_pc = "cropped"
    /\ \E i \in Images : \A p \in Priors(i) : mbox_conf_max[i][p] = 0
    /\ \E i \in Images :
          /\ \A p, q \in Priors(i) : mbox_conf_max[i][p] = mbox_conf_max[i][q]
          /\ \E p, q \in Priors(i) :
                mbox_conf_max[i][p] > 0 /\ decode_bbox[i][p] # decode_bbox[i][q]

\* C2: the selected box of every image is a decoded box of a prior whose
\* confidence (the maximum over its confidence channels) is maximal among the
\* priors of that image.
C2_SelectsMaxConfidence ==
    box_pc \in {"region_image_generating", "cropped"} =>
        \A i \in Images :
            \E p \in Priors(i) :
                /\ good_box[i] = decode_bbox[i][p]
                /\ \A q \in Priors(i) : mbox_conf_max[i][p] >= mbox_conf_max[i][q]

\* two overlapping priors of confidence 0.9 and 0.1 with different boxes: the
\* box of the 0.9 prior is selected
C2_Witness ==
    /\ box_pc = "cropped"
    /\ \E i \in Images : \E p, q \in Priors(i) :
          /\ mbox_conf_max[i][p] = 9
          /\ mbox_conf_max[i][q] = 1
          /\ \A r \in Priors(i) : r \in {p, q}
          /\ decode_bbox[i][p] # decode_bbox[i][q]
          /\ Intersection(decode_bbox[i][p], decode_bbox[i][q]) > 0
          /\ good_box[i] = decode_bbox[i][p]

Decoded == box_pc # "ssd_out_processing"

\* C3: every decoded box has its four coordinates within [0, 1] and has
\* xmin <= xmax and ymin <= ymax.
C3_DecodedBoxInUnitSquare ==
    Decoded =>
        \A i \in Images : \A p \in Priors(i) :
            /\ \A k \in 1..4 : 0 <= decode_bbox[i][p][k] /\ decode_bbox[i][p][k] <= One
            /\ decode_bbox[i][p][1] <= decode_bbox[i][p][3]
            /\ decode_bbox[i][p][2] <= decode_bbox[i][p][4]

\* a box whose unclipped corners lay outside the image on both sides
C3_Witness ==
    /\ Decoded
    /\ \E i \in Images : \E p \in Priors(i) :
          /\ decode_bbox_xmin(ssd_output[i][p]) < 0
          /\ decode_bbox_ymax(ssd_output[i][p]) > One
          /\ decode_bbox[i][p][1] = 0
          /\ decode_bbox[i][p][4] = One

\* the formula of the box decoder as the specification states it, on the raw
\* vector's parts: offsets d, prior box pb, variances vr
RefDecode(d, pb, vr) ==
    LET prior_w == pb[3] - pb[1]
        prior_h == pb[4] - pb[2]
        prior_cx == (pb[3] + pb[1]) \div 2
        prior_cy == (pb[4] + pb[2]) \div 2
        cx == d[1] * prior_w * vr[1] + prior_cx
        cy == d[2] * prior_w * vr[2] + prior_cy
        w == (ExpMilli(d[3] * vr[3]) * prior_w) \div 1000
        h == (ExpMilli(d[4] * vr[4]) * prior_h) \div 1000
        clip(x) == IF x < 0 THEN 0 ELSE IF x > One THEN One ELSE x
    IN  << clip(cx - w \div 2), clip(cy - h \div 2),
           clip(cx + w \div 2), clip(cy + h \div 2) >>

\* C4: the decoded box equals the reference formula (the y centre scaled by the
\* prior's width), and prior (0,0,1,1) with unit variances and zero offsets
\* decodes to exactly (0,0,1,1).
C4_DecoderMatchesReference ==
    Decoded =>
        \A i \in Images : \A p \in Priors(i) :
            LET v == ssd_output[i][p]
                d == SubSeq(v, 1, 4)
                pb == SubSeq(v, 5 + NumClasses, 8 + NumClasses)
                vr == SubSeq(v, 9 + NumClasses, 12 + NumClasses)
            IN  /\ decode_bbox[i][p] = RefDecode(d, pb, vr)
                /\ (d = <<0, 0, 0, 0>> /\ pb = FullBox /\ vr = UnitVar)
                      => decode_bbox[i][p] = FullBox

\* the scenario of the claim, decoded
C4_Witness ==
    /\ Decoded
    /\ ssd_output[1][1] = Raw(<<0, 0, 0, 0>>, ConfVec(9, 1), FullBox, UnitVar)
    /\ decode_bbox[1][1] = FullBox


----------------------------------------------------------------------------
(* Properties of the decoder, the loss and the fusion *)

ModelBuilt == pc \in {"setup_inception_initializer", "setup_global_step", "built", "decoding"}

\* the decoder's softmax rows for one sentence run unrolled, as build_model
\* runs it in "eval": the sentence padded by `pad` positions, masked to its own
\* length, from the seeded state
UnrolledSoftmax(sentence, pad) ==
    LET T == Len(sentence) + pad
        input_seqs == << Pad(sentence, T) >>
        input_mask == << Pad(Ones(Len(sentence)), T) >>
        seq_embeddings == EmbeddingLookup(input_seqs)
        context == Concat2(seq_embeddings,
                           TileExpand("eval", seq_embeddings, self.image_embeddings))
    IN  Softmax(Logits(Unrolled(context, input_mask, graph.seed_state, -1)))

\* C5: the stepwise decoder, driven one word at a time from the seeded state
\* with each returned state fed back, gives at every position of the sentence
\* the output the unrolled decoder gives there, whatever the padding behind it.
C5_StepwiseEqualsUnrolled ==
    pc = "decoding" =>
        \A h \in HypIds :
            \A pad \in 0..(MaxLen - Len(hyps[h].sentence)) :
                Len(hyps[h].sentence) >= 1 =>
                    \A t \in 1..Len(hyps[h].sentence) :
                        hyps[h].softmax[t] = UnrolledSoftmax(hyps[h].sentence, pad)[t]

\* a hypothesis decoded to full length whose outputs differ along the sentence
C5_Witness ==
    /\ pc = "decoding"
    /\ \E h \in HypIds :
          /\ Len(hyps[h].sentence) = MaxLen
          /\ hyps[h].softmax[1] # hyps[h].softmax[MaxLen]
          /\ hyps[h].state # graph.initial_state[1]

\* a hypothesis run alone: one single-row call per word of the sentence
RECURSIVE RunAlone(_, _, _)
RunAlone(sentence, state, softmax) ==
    IF Len(sentence) = 0 THEN [ state |-> state, softmax |-> softmax ]
    ELSE LET r == InferenceStep(self.image_embeddings, << sentence[1] >>, << state >>)
         IN  RunAlone(Tail(sentence), r.state[1], Append(softmax, r.softmax[1]))

\* C6: a stepwise call keeps no memory of earlier calls and mixes no rows:
\* whatever calls were interleaved or batched, each hypothesis holds the state
\* and the outputs it gets when its own calls run alone in order.
C6_HypothesesIndependent ==
    pc = "decoding" =>
        \A h \in HypIds :
            LET alone == RunAlone(hyps[h].sentence, graph.initial_state[1], << >>)
            IN  /\ hyps[h].state = alone.state
                /\ hyps[h].softmax = alone.softmax

\* a hypothesis was last stepped as the second row of a call whose first row
\* belonged to a hypothesis in a different state
C6_Witness ==
    /\ pc = "decoding"
    /\ \E h \in HypIds : \E g \in HypIds \ {h} :
          /\ Len(hyps[h].beam) = 2
          /\ hyps[h].beam[1] = g
          /\ hyps[h].beam[2] = h
          /\ hyps[g].beam = hyps[h].beam
          /\ hyps[g].fed # hyps[h].fed
          /\ hyps[g].state # hyps[h].state

LossBuilt == ModelBuilt /\ mode # "inference"

\* the flattened targets with position n replaced by word v
TargetsWith(n, v) ==
    [ m \in 1..Len(self.target_cross_entropy_loss_weights) |->
        IF m = n THEN v ELSE Flatten(self.target_seqs)[m] ]

\* the flattened targets with every masked position replaced by word v
TargetsMasked(v) ==
    [ m \in 1..Len(self.target_cross_entropy_loss_weights) |->
        IF self.target_cross_entropy_loss_weights[m] = 0 THEN v
        ELSE Flatten(self.target_seqs)[m] ]

SameFraction(a, b) == a.den > 0 /\ b.den > 0 /\ a.num * b.den = b.num * a.den

\* C7: the batch loss is (sum of per-token loss x mask) / (sum of mask); the
\* target words at masked positions do not change it; with an all-ones mask
\* it is the plain mean of the per-token losses.
C7_MaskedLoss ==
    LossBuilt =>
        LET losses == self.target_cross_entropy_losses
            weights == Flatten(self.input_mask)
            N == Len(losses)
        IN  /\ Len(weights) = N
            /\ Len(Flatten(self.target_seqs)) = N
            /\ SameFraction(graph.batch_loss,
                            [ num |-> Sum([ n \in 1..N |-> losses[n] * weights[n] ]),
                              den |-> Sum(weights) ])
            /\ \A v \in 0..(VocabSize - 1) :
                  /\ SameFraction(graph.batch_loss,
                                  BatchLoss(CrossEntropy(TargetsMasked(v), graph.logits),
                                            weights))
                  /\ \A n \in 1..N :
                        weights[n] = 0 =>
                            SameFraction(graph.batch_loss,
                                         BatchLoss(CrossEntropy(TargetsWith(n, v),
                                                                graph.logits), weights))
            /\ (\A n \in 1..N : weights[n] = 1) =>
                  graph.batch_loss.num * N = Sum(losses) * graph.batch_loss.den

\* a batch with a padded position whose per-token loss is not zero, and whose
\* loss would differ for another target word there
C7_Witness ==
    /\ LossBuilt
    /\ mode = "eval"
    /\ \E n \in 1..Len(self.target_cross_entropy_losses) :
          /\ self.target_cross_entropy_loss_weights[n] = 0
          /\ self.target_cross_entropy_losses[n] > 0
          /\ \E v \in 0..(VocabSize - 1) :
                CrossEntropy(TargetsWith(n, v), graph.logits)[n]
                    # self.target_cross_entropy_losses[n]

FirstHalf(v) == SubSeq(v, 1, NumLstmUnits)
SecondHalf(v) == SubSeq(v, NumLstmUnits + 1, 2 * NumLstmUnits)

\* the sequence-context row of the word a hypothesis was last fed
LastInput(h) ==
    LET seq_embeddings ==
            EmbeddingLookup(<< << hyps[h].sentence[Len(hyps[h].sentence)] >> >>)
    IN  seq_embeddings[1][1] \o self.image_embeddings[1]

\* C8: the flat state round-trips: a state vector has length 2H, its two
\* halves joined again are the vector, the flat initial state splits back into
\* the seeded pair, and the fetched initial state, the fed state and the
\* returned state all hold the pair in the same half order.
C8_StateRoundTrip ==
    /\ (ModelBuilt /\ mode = "inference") =>
          /\ Len(graph.initial_state) = Len(self.images)
          /\ \A b \in 1..Len(graph.initial_state) :
                /\ Len(graph.initial_state[b]) = 2 * NumLstmUnits
                /\ FirstHalf(graph.initial_state[b]) = graph.seed_state.c[b]
                /\ SecondHalf(graph.initial_state[b]) = graph.seed_state.h[b]
          /\ StateSplit(graph.initial_state) = graph.seed_state
          /\ StateConcat(StateSplit(graph.initial_state)) = graph.initial_state
          /\ StateSplit(StateConcat(graph.seed_state)) = graph.seed_state
    /\ pc = "decoding" =>
          \A h \in HypIds :
              /\ Len(hyps[h].state) = 2 * NumLstmUnits
              /\ StateConcat(StateSplit(<< hyps[h].state >>)) = << hyps[h].state >>
              /\ FirstHalf(hyps[h].state) \o SecondHalf(hyps[h].state) = hyps[h].state
              /\ \A g \in HypIds :
                    LET pair == [ c |-> << FirstHalf(hyps[g].state) >>,
                                  h |-> << SecondHalf(hyps[h].state) >> ]
                    IN  /\ StateSplit(StateConcat(pair)) = pair
                        /\ StateConcat(pair)[1]
                              = FirstHalf(hyps[g].state) \o SecondHalf(hyps[h].state)
              /\ Len(hyps[h].sentence) >= 1 =>
                    LET next == LstmRow(LastInput(h), FirstHalf(hyps[h].fed),
                                        SecondHalf(hyps[h].fed))
                    IN  /\ FirstHalf(hyps[h].state) = next.c
                        /\ SecondHalf(hyps[h].state) = next.h

\* a returned state whose halves differ, got from a fed state whose halves differ
C8_Witness ==
    /\ pc = "decoding"
    /\ \E h \in HypIds :
          /\ Len(hyps[h].sentence) >= 1
          /\ FirstHalf(hyps[h].fed) # SecondHalf(hyps[h].fed)
          /\ FirstHalf(hyps[h].state) # SecondHalf(hyps[h].state)

\* C9: in every mode the fused image context has length 2E per image, every
\* sequence-context row has length 2E, and the tiled global embedding has the
\* batch and time dimensions of the word embeddings: the image's embedding
\* repeated along time in train and eval, along the batch in inference.
C9_FusionShapes ==
    /\ pc # "error"
    /\ ModelBuilt =>
          LET tile == graph.tile_expand_region_aspect_embeddings
          IN  /\ Len(self.image_embeddings_with_aspect) = Len(self.images)
              /\ \A b \in 1..Len(self.images) :
                    Len(self.image_embeddings_with_aspect[b]) = 2 * EmbeddingSize
              /\ Len(self.seq_embeddings_with_aspect) = Len(self.input_seqs)
              /\ Len(tile) = Len(self.seq_embeddings)
              /\ \A b \in 1..Len(self.input_seqs) :
                    /\ Len(self.seq_embeddings_with_aspect[b]) = Len(self.input_seqs[b])
                    /\ Len(tile[b]) = Len(self.seq_embeddings[b])
                    /\ \A t \in 1..Len(self.input_seqs[b]) :
                          /\ Len(self.seq_embeddings_with_aspect[b][t]) = 2 * EmbeddingSize
                          /\ Len(tile[b][t]) = EmbeddingSize
                          /\ tile[b][t] = IF mode = "inference"
                                          THEN self.image_embeddings[1]
                                          ELSE self.image_embeddings[b]

\* an inference graph evaluated on a feed of more rows than it has time steps
C9_Witness ==
    /\ ModelBuilt
    /\ mode = "inference"
    /\ Len(self.input_seqs) > Len(self.input_seqs[1])
    /\ Len(graph.tile_expand_region_aspect_embeddings) = Len(self.input_seqs)

\* C10: the second call of image_inception_embeddings (the cropped region)
\* creates no variable and reads exactly the variables the first call created.
C10_SharedExtractor ==
    Len(embed_calls) = 2 =>
        /\ embed_calls[2].created = {}
        /\ embed_calls[2].read = embed_calls[1].created

----------------------------------------------------------------------------
(* Properties of build() as a whole *)

Built == pc \in {"built", "decoding"}

\* C11: after build() the model exposes a restore hook in every mode: init_fn
\* is a callable, never None, in train, eval and inference.
C11_RestoreHookInEveryMode == Built => self.init_fn # None

----------------------------------------------------------------------------
(* Properties of the drivers *)

Calls(name) == { k \in 1..Len(main.log) : main.log[k] = name }

\* C12: in every run of either driver the restore function is invoked exactly
\* once per session, after the graph is finalized and before the first
\* beam_search call; no beam_search call precedes it, whatever the number of
\* images, zero included.
C12_RestoreOnceBeforeSearch ==
    /\ Cardinality(Calls("restore_fn")) <= 1
    /\ \A b \in Calls("beam_search") : \E r \in Calls("restore_fn") : r < b
    /\ \A r \in Calls("restore_fn") :
          /\ main.finalized
          /\ \E f \in Calls("finalize") : f < r
    /\ main.pc \in {"beam_search", "done"} => Cardinality(Calls("restore_fn")) = 1
    /\ (main.pc = "done" /\ Iterations(main) = 0) =>
          /\ Calls("beam_search") = {}
          /\ Cardinality(Calls("restore_fn")) = 1

\* a finished run of create_results that captioned MaxFiles images
C12_Witness ==
    /\ main.pc = "done"
    /\ main.program = "create_results"
    /\ Cardinality(Calls("beam_search")) = MaxFiles
    /\ Cardinality(Calls("restore_fn")) = 1

----------------------------------------------------------------------------
(* Properties of the unrolled decoder and of the fusion's use *)

\* the positions of the batch past their example's count of mask ones
PaddedPositions ==
    { p \in (1..Len(self.input_mask)) \X (1..Len(self.input_mask[1])) :
        p[2] > Cardinality({ t \in 1..Len(self.input_mask[p[1]]) :
                                self.input_mask[p[1]][t] = 1 }) }

\* the sequence context with the rows at the positions P shifted by delta
Shifted(P, delta) ==
    Tensor([ b \in 1..Len(self.seq_embeddings_with_aspect) |->
        Tensor([ t \in 1..Len(self.seq_embeddings_with_aspect[b]) |->
            IF << b, t >> \in P
            THEN Tensor([ k \in 1..Len(self.seq_embeddings_with_aspect[b][t]) |->
                     (self.seq_embeddings_with_aspect[b][t][k] + delta) % Modulus ])
            ELSE self.seq_embeddings_with_aspect[b][t] ]) ])

\* C13: in unrolled mode an example's valid length is the count of its mask
\* ones; the inputs at or past it change neither the example's state nor any
\* output; and the first step starts from the state the image context seeded.
\* The padded rows are varied in the state build_model leaves, which the later
\* build steps do not change.
C13_PaddingHasNoInfluence ==
    LossBuilt =>
        LET inputs == self.seq_embeddings_with_aspect
            mask == self.input_mask
            B == Len(mask)
            T == Len(mask[1])
            length == SequenceLength(mask)
        IN  /\ \A b \in 1..B :
                  length[b] = Cardinality({ t \in 1..T : mask[b][t] = 1 })
            /\ \E drop \in (IF mode = "train" THEN DropPatterns ELSE {-1}) :
                  LET seeded == LstmCell(self.image_embeddings_with_aspect,
                                         ZeroState(B), drop, 0).state
                      first == LstmCell(Tensor([ b \in 1..B |-> inputs[b][1] ]), seeded, drop, 1)
                      final == DynamicRnnState(inputs, length, seeded, drop, 1)
                  IN  /\ graph.seed_state = seeded
                      /\ graph.lstm_outputs = Unrolled(inputs, mask, seeded, drop)
                      /\ \A b \in 1..B :
                            /\ length[b] >= 1 =>
                                  graph.lstm_outputs[(b - 1) * T + 1] = first.output[b]
                            /\ \A t \in 1..T :
                                  t > length[b] =>
                                     graph.lstm_outputs[(b - 1) * T + t] = Zeros(NumLstmUnits)
                      /\ \A delta \in (IF pc = "setup_inception_initializer"
                                       THEN 1..(Modulus - 1) ELSE {}) :
                            \A P \in {PaddedPositions} \cup { {p} : p \in PaddedPositions } :
                                /\ Unrolled(Shifted(P, delta), mask, seeded, drop)
                                      = graph.lstm_outputs
                                /\ DynamicRnnState(Shifted(P, delta), length, seeded, drop, 1)
                                      = final

\* a training batch holding a padded example next to a full-length one
C13_Witness ==
    /\ pc = "setup_inception_initializer"
    /\ mode = "train"
    /\ PaddedPositions # {}
    /\ \E b \in 1..Len(self.input_mask) :
          \A t \in 1..Len(self.input_mask[b]) : self.input_mask[b][t] = 1
    /\ \E p \in PaddedPositions :
          Shifted({p}, 1)[p[1]][p[2]] # self.seq_embeddings_with_aspect[p[1]][p[2]]

\* the global image embedding a sequence-context row of example b carries
GlobalOf(b) == IF mode = "inference" THEN self.image_embeddings[1]
               ELSE self.image_embeddings[b]

\* C14: the fused image context (global embedding, then region embedding) is
\* the one recurrent input that turns the zero state into the initial state and
\* is in no per-timestep input: every sequence-context row, in both modes, is
\* the timestep's word embedding followed by the global image embedding.
C14_ContextSeedsOnce ==
    /\ ModelBuilt =>
          /\ \A b \in 1..Len(self.images) :
                self.image_embeddings_with_aspect[b]
                    = self.image_embeddings[b] \o self.region_aspect_embeddings[b]
          /\ \E drop \in (IF mode = "train" THEN DropPatterns ELSE {-1}) :
                graph.seed_state = LstmCell(self.image_embeddings_with_aspect,
                                            ZeroState(Len(self.images)), drop, 0).state
          /\ \A b \in 1..Len(self.input_seqs) :
                \A t \in 1..Len(self.input_seqs[b]) :
                    LET row == self.seq_embeddings_with_aspect[b][t]
                    IN  /\ row = self.seq_embeddings[b][t] \o GlobalOf(b)
                        /\ SubSeq(row, 1, EmbeddingSize)
                              = EmbeddingLookup(self.input_seqs)[b][t]
                        /\ SubSeq(row, EmbeddingSize + 1, 2 * EmbeddingSize) = GlobalOf(b)
    /\ pc = "decoding" =>
          \A h \in HypIds :
              Len(hyps[h].sentence) >= 1 =>
                  << hyps[h].state >>
                      = StateConcat(BasicLSTMCell(<< LastInput(h) >>,
                                                  StateSplit(<< hyps[h].fed >>)).state)

\* a decoded hypothesis of a model whose region embedding is not its global
\* embedding, so that a row carrying the region or the fused context would differ
C14_Witness ==
    /\ pc = "decoding"
    /\ self.region_aspect_embeddings[1] # self.image_embeddings[1]
    /\ self.image_embeddings_with_aspect[1]
          # self.seq_embeddings_with_aspect[1][1]
    /\ \E h \in HypIds : Len(hyps[h].sentence) = MaxLen

----------------------------------------------------------------------------
(* Properties of the raw detector layout *)

\* C15, as amended: a raw vector holds 4 offsets, C class confidences, the 4
\* prior-box coordinates and 4 variances (length 4 + C + 8); the decoder reads
\* the offsets from the first 4 entries, the prior box from the 4 entries
\* before the last 4 and the variances from the last 4, and the ranking
\* confidence is the maximum over exactly the C confidence entries.
C15_RawLayout ==
    Decoded =>
        \A i \in Images : \A p \in Priors(i) :
            LET v == ssd_output[i][p]
                C == NumClasses
            IN  /\ Len(v) = 4 + C + 8
                /\ Len(mbox_loc(v)) = 4
                /\ Len(mbox_conf(v)) = C
                /\ Len(mbox_priorbox(v)) = 4
                /\ Len(variances(v)) = 4
                /\ \A k \in 1..4 :
                      /\ mbox_loc(v)[k] = v[k]
                      /\ mbox_priorbox(v)[k] = v[4 + C + k]
                      /\ variances(v)[k] = v[Len(v) - 4 + k]
                /\ \A k \in 1..C : mbox_conf(v)[k] = v[4 + k]
                /\ \E k \in 1..C : mbox_conf_max[i][p] = v[4 + k]
                /\ \A k \in 1..C : v[4 + k] <= mbox_conf_max[i][p]
                /\ decode_bbox[i][p]
                      = RefDecode(<< v[1], v[2], v[3], v[4] >>,
                                  [ k \in 1..4 |-> v[4 + C + k] ],
                                  [ k \in 1..4 |-> v[Len(v) - 4 + k] ])

\* a decoded vector whose confidences differ, whose offsets are not all zero
\* and whose prior box and offsets hold entries above and below every confidence
C15_Witness ==
    /\ Decoded
    /\ \E i \in Images : \E p \in Priors(i) :
          LET v == ssd_output[i][p]
          IN  /\ v[5] # v[4 + NumClasses]
              /\ \E k \in 1..4 : v[k] # 0 /\ v[k] < mbox_conf_max[i][p]
              /\ \E k \in 1..4 : v[4 + NumClasses + k] > mbox_conf_max[i][p]

\* C15, as stated: a raw vector holds 4 offsets, C class confidences and 4
\* variances (length 4 + C + 4), and the ranking confidence is the maximum over
\* exactly the C entries between the offsets and the variances.
C15_LayoutWithoutPriors ==
    Decoded =>
        \A i \in Images : \A p \in Priors(i) :
            LET v == ssd_output[i][p]
                C == Len(v) - 8
            IN  /\ \A k \in 1..4 :
                      /\ mbox_loc(v)[k] = v[k]
                      /\ variances(v)[k] = v[4 + C + k]
                /\ Len(mbox_conf(v)) = C
                /\ \E k \in 1..C : mbox_conf_max[i][p] = v[4 + k]
                /\ \A k \in 1..C : v[4 + k] <= mbox_conf_max[i][p]

----------------------------------------------------------------------------
(* Properties of the order of the build steps *)

\* C16: in build(), in each mode, every attribute a build step reads was
\* given a non-None value by an earlier step of the fixed order; in inference
\* target_seqs and input_mask stay None and total_loss and the per-token
\* losses and weights stay None; in train and eval the loss is assigned.
C16_AttributesAssignedBeforeRead ==
    /\ pc # "error"
    /\ pc = "build_image_embeddings" => self.images # None
    /\ pc = "build_image_ssd_embeddings" =>
          /\ self.images # None
          /\ self.image_embeddings # None
    /\ pc = "build_seq_embeddings" => self.input_seqs # None
    /\ pc = "build_model" =>
          /\ self.image_embeddings # None
          /\ self.region_aspect_embeddings # None
          /\ self.input_seqs # None
          /\ self.seq_embeddings # None
          /\ mode # "inference" =>
                /\ self.target_seqs # None
                /\ self.input_mask # None
    /\ mode = "inference" =>
          /\ self.target_seqs = None
          /\ self.input_mask = None
          /\ self.total_loss = None
          /\ self.target_cross_entropy_losses = None
          /\ self.target_cross_entropy_loss_weights = None
    /\ (ModelBuilt /\ mode # "inference") =>
          /\ self.total_loss # None
          /\ self.target_cross_entropy_losses # None
          /\ self.target_cross_entropy_loss_weights # None

\* an inference model built to the end, its loss attributes still None
C16_Witness ==
    /\ pc = "built"
    /\ mode = "inference"
    /\ self.target_seqs = None
    /\ self.total_loss = None
    /\ self.seq_embeddings_with_aspect # None
    /\ self.region_aspect_embeddings # None

====
